---- MODULE Spec2Model ----
(***************************************************************************)
(* A model of the ELF loader of iago (package exe, elf.go) together with   *)
(* the find command (package cli) and the parts of packages isa and trie   *)
(* that the loader calls.                                                  *)
(*                                                                         *)
(* NewElf is modelled as a sequential program: each action is one call it  *)
(* makes (elfArch, elfEndianness, setISA, each fieldValue read of          *)
(* locateExecutableSegments, one segment of InstructionStream, the trie    *)
(* build, the return).  A Go uint is a 64-bit word, kept as its 8 bytes,   *)
(* least significant first, with + and * wrapping modulo 2^64.  A Go       *)
(* run-time panic is an outcome of its own.                                *)
(***************************************************************************)
EXTENDS Integers, Sequences, FiniteSets, TLC

(***************************************************************************)
(* Bounds of the model.                                                    *)
(***************************************************************************)
\* Largest number of program header entries in a generated image.
MaxEntries == 2
\* Largest number of bytes following the program header table.
MaxBody == 4
\* Spare capacity, in bytes, the buffer's backing array may have beyond len.
ExtraCap == 1

(***************************************************************************)
(* Go's uint: a 64-bit word, as 8 bytes, least significant first.          *)
(***************************************************************************)
UintBytes == 8

\* uint(n) for a small non-negative n (n < 2^31).
U(n) ==
  <<n % 256, (n \div 256) % 256, (n \div 65536) % 256, n \div 16777216,
    0, 0, 0, 0>>

\* x fits in 31 bits: its value can be used as a number of the model.
IsSmall(x) == x[4] < 128 /\ \A i \in 5..UintBytes : x[i] = 0

Small(x) == x[1] + 256 * x[2] + 65536 * x[3] + 16777216 * x[4]

\* int(x) < 0: the conversion of a uint with its top bit set.
IntNegative(x) == x[UintBytes] >= 128

\* a + b on uint, byte by byte with the carry; the carry out of the last
\* byte is dropped: the sum wraps modulo 2^64.
AddU(a, b) ==
  LET s1 == a[1] + b[1]
      s2 == a[2] + b[2] + s1 \div 256
      s3 == a[3] + b[3] + s2 \div 256
      s4 == a[4] + b[4] + s3 \div 256
      s5 == a[5] + b[5] + s4 \div 256
      s6 == a[6] + b[6] + s5 \div 256
      s7 == a[7] + b[7] + s6 \div 256
      s8 == a[8] + b[8] + s7 \div 256
  IN <<s1 % 256, s2 % 256, s3 % 256, s4 % 256,
       s5 % 256, s6 % 256, s7 % 256, s8 % 256>>

\* The k-th column of the product a * b: the sum of a[i] * b[k + 1 - i].
MulTerm(a, b, k, i) == IF i <= k THEN a[i] * b[k + 1 - i] ELSE 0

MulColumn(a, b, k) ==
  MulTerm(a, b, k, 1) + MulTerm(a, b, k, 2) + MulTerm(a, b, k, 3)
    + MulTerm(a, b, k, 4) + MulTerm(a, b, k, 5) + MulTerm(a, b, k, 6)
    + MulTerm(a, b, k, 7) + MulTerm(a, b, k, 8)

\* a * b on uint, column by column with the carry: wraps modulo 2^64.
MulU(a, b) ==
  LET c1 == MulColumn(a, b, 1)
      c2 == MulColumn(a, b, 2) + c1 \div 256
      c3 == MulColumn(a, b, 3) + c2 \div 256
      c4 == MulColumn(a, b, 4) + c3 \div 256
      c5 == MulColumn(a, b, 5) + c4 \div 256
      c6 == MulColumn(a, b, 6) + c5 \div 256
      c7 == MulColumn(a, b, 7) + c6 \div 256
      c8 == MulColumn(a, b, 8) + c7 \div 256
  IN <<c1 % 256, c2 % 256, c3 % 256, c4 % 256,
       c5 % 256, c6 % 256, c7 % 256, c8 % 256>>

\* a <= b on uint: equal, or smaller at the highest byte that differs.
LeqU(a, b) ==
  \/ a = b
  \/ \E i \in 1..UintBytes :
       a[i] < b[i] /\ \A j \in (i + 1)..UintBytes : a[j] = b[j]

(***************************************************************************)
(* The field tables.                                                       *)
(***************************************************************************)
elfField(o32, o64, s32, s64) ==
  [offset32 |-> o32, offset64 |-> o64, size32 |-> s32, size64 |-> s64]

elfHeader ==
  ("arch" :> elfField(4, 4, 1, 1)) @@
  ("endianness" :> elfField(5, 5, 1, 1)) @@
  ("isa" :> elfField(18, 18, 1, 1)) @@
  ("entry point" :> elfField(24, 24, 4, 8)) @@
  ("program header table offset" :> elfField(28, 32, 4, 8)) @@
  ("program header table entry size" :> elfField(42, 54, 2, 2)) @@
  ("program header table num entries" :> elfField(44, 56, 2, 2))

programHeaderEntry ==
  ("segment type" :> elfField(0, 0, 4, 4)) @@
  ("flags" :> elfField(24, 4, 4, 4)) @@
  ("segment offset" :> elfField(4, 8, 4, 8)) @@
  ("virtual address" :> elfField(8, 16, 4, 8)) @@
  ("file size" :> elfField(16, 32, 4, 8)) @@
  ("mem size" :> elfField(20, 40, 4, 8))

Table(name) == IF name = "elfHeader" THEN elfHeader ELSE programHeaderEntry

(***************************************************************************)
(* The input of NewElf: a buffer (elfContents, a Go slice with a length    *)
(* and a capacity) and the args map, of which only the presence of the     *)
(* thumb key is read.  A buffer is described by the ELF image it holds:    *)
(* the header bytes, the program header entries as they lie in the file,   *)
(* the bytes after the table, and where the slice ends.                    *)
(***************************************************************************)
\* The word size the image is laid out for.
LayoutArch(p) == IF p.archByte = 1 THEN 32 ELSE 64

\* Where the program header table lies in the file, and the size of an entry.
TablePos(a) == IF a = 32 THEN 52 ELSE 64

EntryLen(a) == IF a = 32 THEN 32 ELSE 56

BodyPos(a, n) == TablePos(a) + n * EntryLen(a)

FullLen(p) == BodyPos(LayoutArch(p), Len(p.entries)) + Len(p.body)

FieldPos(table, field, a) ==
  IF a = 32 THEN table[field].offset32 ELSE table[field].offset64

FieldWidth(table, field, a) ==
  IF a = 32 THEN table[field].size32 ELSE table[field].size64

Placed(table, field, a, base, val) ==
  [pos |-> base + FieldPos(table, field, a),
   width |-> FieldWidth(table, field, a),
   val |-> val]

HeaderFields(p) ==
  LET a == LayoutArch(p) IN
  << Placed(elfHeader, "arch", a, 0, U(p.archByte)),
     Placed(elfHeader, "endianness", a, 0, U(p.endByte)),
     Placed(elfHeader, "isa", a, 0, U(p.isaByte)),
     Placed(elfHeader, "program header table offset", a, 0, p.phoff),
     Placed(elfHeader, "program header table entry size", a, 0, U(p.phentsize)),
     Placed(elfHeader, "program header table num entries", a, 0, U(p.phnum)) >>

EntryFields(p, j) ==
  LET a == LayoutArch(p)
      base == TablePos(a) + (j - 1) * EntryLen(a)
      e == p.entries[j]
  IN << Placed(programHeaderEntry, "flags", a, base, U(e.flags)),
        Placed(programHeaderEntry, "segment offset", a, base, e.offset),
        Placed(programHeaderEntry, "virtual address", a, base, e.vaddr),
        Placed(programHeaderEntry, "file size", a, base, e.filesz) >>

RECURSIVE EntriesFields(_, _)
EntriesFields(p, j) ==
  IF j > Len(p.entries) THEN <<>>
  ELSE EntryFields(p, j) \o EntriesFields(p, j + 1)

ImageFields(p) == HeaderFields(p) \o EntriesFields(p, 1)

\* n zero bytes.
Zeros(n) == [k \in 1..n |-> 0]

\* The f.width bytes a field holds for f.val, in the image's byte order.
FieldBytes(f, big) ==
  [d \in 1..f.width |-> IF big THEN f.val[f.width - d + 1] ELSE f.val[d]]

\* Where a field ends, and the r-th of some fields in file order.
End(f) == f.pos + f.width

Nth(fields, r) ==
  fields[CHOOSE n \in DOMAIN fields :
           Cardinality({m \in DOMAIN fields :
                          fields[m].pos < fields[n].pos}) = r - 1]

\* The bytes of the file from position from to the end of the field f:
\* zeros, then the field.
Piece(f, from, big) == Zeros(f.pos - from) \o FieldBytes(f, big)

\* The header: the magic number, the six fields, zeros up to the table.
HeaderBytes(p) ==
  LET h == HeaderFields(p)
      big == p.endByte = 2
      f1 == Nth(h, 1)
      f2 == Nth(h, 2)
      f3 == Nth(h, 3)
      f4 == Nth(h, 4)
      f5 == Nth(h, 5)
      f6 == Nth(h, 6)
  IN <<127, 69, 76, 70>> \o Piece(f1, 4, big) \o Piece(f2, End(f1), big)
       \o Piece(f3, End(f2), big) \o Piece(f4, End(f3), big)
       \o Piece(f5, End(f4), big) \o Piece(f6, End(f5), big)
       \o Zeros(TablePos(LayoutArch(p)) - End(f6))

\* The j-th program header entry: its four fields, zeros elsewhere.
EntryBytes(p, j) ==
  LET e == EntryFields(p, j)
      big == p.endByte = 2
      base == BodyPos(LayoutArch(p), j - 1)
      f1 == Nth(e, 1)
      f2 == Nth(e, 2)
      f3 == Nth(e, 3)
      f4 == Nth(e, 4)
  IN Piece(f1, base, big) \o Piece(f2, End(f1), big)
       \o Piece(f3, End(f2), big) \o Piece(f4, End(f3), big)
       \o Zeros(BodyPos(LayoutArch(p), j) - End(f4))

RECURSIVE EntriesBytes(_, _)
EntriesBytes(p, j) ==
  IF j > Len(p.entries) THEN <<>>
  ELSE EntryBytes(p, j) \o EntriesBytes(p, j + 1)

\* The bytes of the whole file: header, table, and the body after it.
Image(p) == HeaderBytes(p) \o EntriesBytes(p, 1) \o p.body

\* The backing array of the slice: the file, cut or zero-filled to cap bytes.
Backing(p) ==
  IF p.cap <= FullLen(p) THEN SubSeq(Image(p), 1, p.cap)
  ELSE Image(p) \o Zeros(p.cap - FullLen(p))

\* The value a field of the given width holds after the image stored val in it.
StoredByte(val, width, i) == IF i <= width THEN val[i] ELSE 0

Stored(val, width) ==
  <<StoredByte(val, width, 1), StoredByte(val, width, 2),
    StoredByte(val, width, 3), StoredByte(val, width, 4),
    StoredByte(val, width, 5), StoredByte(val, width, 6),
    StoredByte(val, width, 7), StoredByte(val, width, 8)>>

Param(ab, eb, ib, th, phoff, entsize, phnum, entries, body, len, cap) ==
  [archByte |-> ab, endByte |-> eb, isaByte |-> ib, thumb |-> th,
   phoff |-> phoff, phentsize |-> entsize, phnum |-> phnum,
   entries |-> entries, body |-> body, len |-> len, cap |-> cap]

Entry(fl, off, va, sz) == [flags |-> fl, offset |-> off, vaddr |-> va, filesz |-> sz]

\* A well-formed image: the table right after the header, the declared
\* count the number of entries, the slice holding the whole file.
Std(ab, eb, ib, th, entries, body) ==
  LET a == IF ab = 1 THEN 32 ELSE 64
      full == BodyPos(a, Len(entries)) + Len(body)
  IN Param(ab, eb, ib, th, U(TablePos(a)), EntryLen(a), Len(entries),
           entries, body, full, full)

(***************************************************************************)
(* Results of the calls: a value, an error value, or a run-time panic.     *)
(***************************************************************************)
Zero == U(0)

Ok(v) == [kind |-> "ok", val |-> v, err |-> ""]

Err(msg) == [kind |-> "err", val |-> Zero, err |-> msg]

Panic == [kind |-> "panic", val |-> Zero, err |-> ""]

\* buf[k] of a Go slice (k from 0); the caller has checked k against len.
At(buf, k) == buf.bytes[k + 1]

Cap(buf) == Len(buf.bytes)

(***************************************************************************)
(* elfArch and elfEndianness.                                              *)
(***************************************************************************)
elfArch(elfContents) ==
  LET archOffset == 4 IN
  IF elfContents.len < archOffset
    THEN Err("invalid ELF file: file size less than offset to arch field")
  ELSE IF ~(archOffset < elfContents.len) THEN Panic
  ELSE IF At(elfContents, archOffset) = 1 THEN Ok(U(32))
  ELSE IF At(elfContents, archOffset) = 2 THEN Ok(U(64))
  ELSE Err("invalid ELF file: arch field not 32 or 64")

elfEndianness(elfContents) ==
  LET endiannessOffset == 5 IN
  IF elfContents.len < endiannessOffset
    THEN [kind |-> "err", val |-> "",
          err |-> "invalid ELF file: file size less than offset to endianness field"]
  ELSE IF ~(endiannessOffset < elfContents.len)
    THEN [kind |-> "panic", val |-> "", err |-> ""]
  ELSE IF At(elfContents, endiannessOffset) = 1
    THEN [kind |-> "ok", val |-> "little", err |-> ""]
  ELSE IF At(elfContents, endiannessOffset) = 2
    THEN [kind |-> "ok", val |-> "big", err |-> ""]
  ELSE [kind |-> "err", val |-> "",
        err |-> "invalid ELF file: endianness field not \"little\" or \"big\""]

(***************************************************************************)
(* fieldValue.                                                             *)
(***************************************************************************)
\* len(contents) < int(x), with len a small non-negative number.
LenLessThanInt(len, x) ==
  /\ ~IntNegative(x)
  /\ (~IsSmall(x) \/ len < Small(x))

\* Whether contents[low:high] is a legal slice expression: as unsigned
\* numbers, low <= high <= cap(contents).  Otherwise it panics.
SliceInRange(buf, low, high) ==
  /\ IsSmall(high)
  /\ Small(high) <= Cap(buf)
  /\ LeqU(low, high)

\* The i-th byte, from the low end, of the value decoded from the size
\* bytes at position low.
DecodeByte(buf, low, size, endianness, i) ==
  IF i > size THEN 0
  ELSE IF size = 1 THEN At(buf, low)
  ELSE IF endianness = "big" THEN At(buf, low + size - i)
  ELSE At(buf, low + i - 1)

\* binary.LittleEndian / binary.BigEndian .Uint16, .Uint32, .Uint64, and
\* uint(value[0]) for one byte, on the size bytes from position low.
Decode(buf, low, size, endianness) ==
  <<DecodeByte(buf, low, size, endianness, 1),
    DecodeByte(buf, low, size, endianness, 2),
    DecodeByte(buf, low, size, endianness, 3),
    DecodeByte(buf, low, size, endianness, 4),
    DecodeByte(buf, low, size, endianness, 5),
    DecodeByte(buf, low, size, endianness, 6),
    DecodeByte(buf, low, size, endianness, 7),
    DecodeByte(buf, low, size, endianness, 8)>>

fieldValue(e, field, targetHeader, baseOffset) ==
  LET fieldInfo == targetHeader[field]
      offset0 == IF e.arch = 32 THEN fieldInfo.offset32
                 ELSE IF e.arch = 64 THEN fieldInfo.offset64 ELSE 0
      size == IF e.arch = 32 THEN fieldInfo.size32
              ELSE IF e.arch = 64 THEN fieldInfo.size64 ELSE 0
      offset == AddU(U(offset0), baseOffset)
      high == AddU(offset, U(size))
  IN IF LenLessThanInt(e.contents.len, high)
       THEN Err("invalid ELF file: value offset outside file bounds")
     ELSE IF ~SliceInRange(e.contents, offset, high) THEN Panic
     ELSE IF size # 1 /\ e.endianness \notin {"big", "little"} THEN Panic
     ELSE Ok(Decode(e.contents, Small(offset), size, e.endianness))

(***************************************************************************)
(* Package isa: the descriptors setISA chooses from, by name, and their    *)
(* instruction widths in bytes.                                            *)
(***************************************************************************)
NilISA == "nil"

InstructionSize(isa) ==
  CASE isa = "X86" -> 1
    [] isa = "Thumb" -> 2
    [] isa = "ARM" -> 4
    [] isa = "AArch64" -> 4

(***************************************************************************)
(* setISA.                                                                 *)
(***************************************************************************)
supportedISAs == (3 :> "X86") @@ (62 :> "X86") @@ (40 :> "ARM") @@ (183 :> "AArch64")

ArmAdvisory ==
  "ARM binary detected. To target thumb mode re-load using the --thumb flag"

ThumbIgnoredAdvisory ==
  "--thumb flag ignored: --thumb flag should only be used on ARM binaries"

\* selectISA with the mode hint dropped: the dual-mode identifier always
\* gets its default descriptor.
selectISAIgnoringHint(elfIsaValue, thumb) ==
  IF IsSmall(elfIsaValue) /\ Small(elfIsaValue) \in DOMAIN supportedISAs
    THEN [isa |-> supportedISAs[Small(elfIsaValue)], err |-> "", out |-> <<>>]
    ELSE [isa |-> NilISA, err |-> "unsupported operation", out |-> <<>>]

\* The part of setISA after the identifier is read: the descriptor stored
\* in e.isa, the error returned and the lines printed.
selectISA(elfIsaValue, thumb) ==
  IF IsSmall(elfIsaValue) /\ Small(elfIsaValue) \in DOMAIN supportedISAs
    THEN IF Small(elfIsaValue) = 40
           THEN IF thumb
                  THEN [isa |-> "Thumb", err |-> "", out |-> <<>>]
                  ELSE [isa |-> supportedISAs[40], err |-> "",
                        out |-> <<ArmAdvisory>>]
           ELSE [isa |-> supportedISAs[Small(elfIsaValue)], err |-> "",
                 out |-> IF thumb THEN <<ThumbIgnoredAdvisory>> ELSE <<>>]
    ELSE [isa |-> NilISA, err |-> "unsupported operation", out |-> <<>>]

\* setISA: the result of the read, then the selection.
setISA(e, thumb) ==
  LET r == fieldValue(e, "isa", elfHeader, Zero) IN
  IF r.kind = "ok"
    THEN [read |-> r] @@ selectISA(r.val, thumb)
    ELSE [read |-> r, isa |-> NilISA, err |-> r.err, out |-> <<>>]

(***************************************************************************)
(* InstructionStream.                                                      *)
(***************************************************************************)
HexDigit == <<"0", "1", "2", "3", "4", "5", "6", "7",
              "8", "9", "a", "b", "c", "d", "e", "f">>

\* An encoding with the two digits of each byte swapped.
RECURSIVE EncodeLowDigitFirst(_, _, _)
EncodeLowDigitFirst(buf, low, n) ==
  IF n = 0 THEN <<>>
  ELSE <<HexDigit[(At(buf, low) % 16) + 1], HexDigit[(At(buf, low) \div 16) + 1]>>
       \o EncodeLowDigitFirst(buf, low + 1, n - 1)

\* hex.EncodeToString of the n bytes of buf from position low.
RECURSIVE EncodeToString(_, _, _)
EncodeToString(buf, low, n) ==
  IF n = 0 THEN <<>>
  ELSE <<HexDigit[(At(buf, low) \div 16) + 1], HexDigit[(At(buf, low) % 16) + 1]>>
       \o EncodeToString(buf, low + 1, n - 1)

Instruction(op, vaddr) == [Op |-> op, Vaddr |-> vaddr]

\* The address without the offset into the segment.
InstructionVaddrOfSegment(seg, i) == seg.VAddr

\* The virtual address of the instruction at byte i of a segment.
InstructionVaddr(seg, i) == AddU(seg.VAddr, U(i))

\* The inner loop over one segment: i runs over 0, w, 2w, ... below
\* len(segmentContents).  segmentContents is contents[low : low+size], so
\* segmentContents[i : i+w] is legal up to the capacity left behind low, and
\* panics beyond it.
SegmentInstructions(buf, seg, low, instructionSize) ==
  LET count == (Small(seg.Size) + instructionSize - 1) \div instructionSize
      I(j) == (j - 1) * instructionSize
      newInstruction(j) ==
        Instruction(EncodeToString(buf, low + I(j), instructionSize),
                    InstructionVaddr(seg, I(j)))
  IN IF \E j \in 1..count : low + I(j) + instructionSize > Cap(buf)
       THEN [panic |-> TRUE, instrs |-> <<>>]
       ELSE [panic |-> FALSE,
             instrs |-> SubSeq([j \in 1..count |-> newInstruction(j)], 1, count)]

\* One iteration of the loop over the segments.
SegmentStream(buf, seg, instructionSize) ==
  LET high == AddU(seg.Offset, seg.Size) IN
  IF ~(IsSmall(seg.Offset) /\ SliceInRange(buf, seg.Offset, high))
    THEN [panic |-> TRUE, instrs |-> <<>>]
    ELSE SegmentInstructions(buf, seg, Small(seg.Offset), instructionSize)

(***************************************************************************)
(* Package trie: the reverse instruction trie, as the map from a path of   *)
(* opcodes (a run of instructions, last instruction first) to the          *)
(* addresses recorded at the node the path leads to.                       *)
(***************************************************************************)
NilTrie == [nil |-> TRUE, nodes |-> <<>>]

\* The opcodes of stream[q..p], last first.
ReversedRun(stream, q, p) ==
  SubSeq([k \in 1..(p - q + 1) |-> stream[p + 1 - k].Op], 1, p - q + 1)

\* The k-th insertion.  The instructions are taken in stream order; from
\* position p the builder walks back through stream[p], ..., stream[q] for
\* q = p, p - 1, ..., 1, and records at the node reached the address of
\* stream[q], the run's first instruction.
TrieInsertion(stream, k) ==
  LET p == CHOOSE r \in 1..Len(stream) :
             ((r - 1) * r) \div 2 < k /\ k <= (r * (r + 1)) \div 2
      q == p + 1 - (k - ((p - 1) * p) \div 2)
  IN [path |-> ReversedRun(stream, q, p), addr |-> stream[q].Vaddr]

TrieInsertions(stream) ==
  LET n == (Len(stream) * (Len(stream) + 1)) \div 2 IN
  SubSeq([k \in 1..n |-> TrieInsertion(stream, k)], 1, n)

\* The addresses recorded at the node of path, in insertion order.
TrieAddresses(insertions, path) ==
  LET At_path(r) == r.path = path
      chosen == SelectSeq(insertions, At_path)
  IN SubSeq([k \in 1..Len(chosen) |-> chosen[k].addr], 1, Len(chosen))

\* trie.Trie(instructionStream, isa)
Trie(instructionStream, isa) ==
  LET insertions == TrieInsertions(instructionStream) IN
  [nil |-> FALSE,
   nodes |-> [path \in {insertions[k].path : k \in DOMAIN insertions} |->
                TrieAddresses(insertions, path)]]

\* The hex groups of target, one instruction each, last group first.
RECURSIVE ReversedGroups(_, _)
ReversedGroups(target, chars) ==
  IF Len(target) < chars THEN <<>>
  ELSE ReversedGroups(SubSeq(target, chars + 1, Len(target)), chars)
       \o <<SubSeq(target, 1, chars)>>

NotFound == "gadget not found"

\* TrieNode.Find(target, isa)
TrieFind(trie, target, isa) ==
  LET path == ReversedGroups(target, 2 * InstructionSize(isa)) IN
  IF path # <<>> /\ path \in DOMAIN trie.nodes
    THEN [addr |-> trie.nodes[path][1], err |-> ""]
    ELSE [addr |-> Zero, err |-> NotFound]

(***************************************************************************)
(* The inputs explored.                                                    *)
(***************************************************************************)
\* 2^63, and 2^64 - n for 1 <= n <= 255.
Pow63 == <<0, 0, 0, 0, 0, 0, 0, 128>>

Minus(n) == <<256 - n, 255, 255, 255, 255, 255, 255, 255>>

ArchBytes == {1, 2, 3}

EndiannessBytes == {1, 2, 3}

IsaBytes == {3, 62, 40, 183, 0}

FlagValues == {0, 1, 6, 7}

BodyBytes == {15, 195}

\* The default bytes after the table: 0f c3 0f c3 ...
DefaultBody == SubSeq(<<15, 195, 15, 195, 15, 195, 15, 195>>, 1, MaxBody)

LayoutOf(ab) == IF ab = 1 THEN 32 ELSE 64

\* One executable entry whose segment is the whole body, loaded at 0x1000.
WholeBody(ab, body) ==
  <<Entry(1, U(BodyPos(LayoutOf(ab), 1)), U(4096), U(Len(body)))>>

\* Every header byte combination and mode hint, on a well-formed image.
HeaderInputs ==
  { Std(ab, eb, ib, th, WholeBody(ab, DefaultBody), DefaultBody) :
      ab \in ArchBytes, eb \in EndiannessBytes, ib \in IsaBytes, th \in BOOLEAN }

\* A well-formed image cut at every length, with and without spare capacity.
TruncatedInputs ==
  UNION { { [Std(ab, eb, 3, FALSE, WholeBody(ab, DefaultBody), DefaultBody)
               EXCEPT !.len = n, !.cap = n + x] :
              eb \in {1, 2}, n \in 0..(BodyPos(LayoutOf(ab), 1) + MaxBody),
              x \in {0, ExtraCap} } :
          ab \in {1, 2} }

\* Declared table offsets and entry sizes that do not describe the file.
TableOffsets(ab) ==
  LET full == BodyPos(LayoutOf(ab), 1) + MaxBody IN
  { U(TablePos(LayoutOf(ab))), U(full - 8), U(full), U(full + 1),
    Pow63, Minus(1), Minus(4), Minus(6), Minus(24), Minus(28) }

TableInputs ==
  UNION { { [Std(ab, eb, 3, FALSE, WholeBody(ab, DefaultBody), DefaultBody)
               EXCEPT !.phoff = po, !.phentsize = es, !.phnum = n] :
              eb \in {1, 2}, po \in TableOffsets(ab),
              es \in {EntryLen(LayoutOf(ab)), 0, 65535}, n \in {0, 1, 2} } :
          ab \in {1, 2} }

\* Tables of up to MaxEntries entries with every combination of flags; the
\* j-th segment is two bytes of the body from byte j-1 on, loaded at
\* j * 0x1000.  The declared count is the number of entries or one more.
RECURSIVE EntriesFrom(_, _, _)
EntriesFrom(ab, flags, j) ==
  IF j > Len(flags) THEN <<>>
  ELSE <<Entry(flags[j], U(BodyPos(LayoutOf(ab), Len(flags)) + j - 1),
               U(4096 * j), U(2))>>
       \o EntriesFrom(ab, flags, j + 1)

EntriesOf(ab, flags) == EntriesFrom(ab, flags, 1)

FlagLists == UNION { [1..n -> FlagValues] : n \in 0..MaxEntries }

EntryInputs ==
  { [Std(ab, eb, 3, FALSE, EntriesOf(ab, fl), DefaultBody)
       EXCEPT !.phnum = Len(fl) + more] :
      ab \in {1, 2}, eb \in {1, 2}, fl \in FlagLists, more \in {0, 1} }

\* One executable segment of every size and place around the body, under
\* every instruction width.
SegmentSizes == { U(n) : n \in 0..(MaxBody + 2) } \cup {Pow63, Minus(1)}

SegmentVaddrs == {U(4096), Minus(2)}

SegmentInputs ==
  { [Std(ab, 1, ib, th,
         <<Entry(1, AddU(U(BodyPos(LayoutOf(ab), 1)), d), va, sz)>>, DefaultBody)
       EXCEPT !.cap = @ + x] :
      ab \in {1, 2}, ib \in {3, 40, 183}, th \in BOOLEAN,
      d \in {U(0), U(1), Minus(1)}, va \in SegmentVaddrs, sz \in SegmentSizes,
      x \in {0, ExtraCap} }

\* One executable segment of every content.
Bodies == UNION { [1..n -> BodyBytes] : n \in 1..MaxBody }

ContentInputs ==
  { Std(2, eb, ib, th, WholeBody(2, body), body) :
      eb \in {1, 2}, ib \in {3, 40}, th \in BOOLEAN, body \in Bodies }

Inputs ==
  HeaderInputs \cup TruncatedInputs \cup TableInputs \cup EntryInputs
    \cup SegmentInputs \cup ContentInputs

(***************************************************************************)
(* The state: the call NewElf(elfContents, args) and, once it has          *)
(* returned, find commands on the result.                                  *)
(***************************************************************************)
VARIABLES
  input,                \* the image description elfContents was made from
  elfContents,          \* NewElf's buffer: [bytes, len]; cap is Len(bytes)
  thumb,                \* whether args holds the thumb key
  pc,                   \* where NewElf stands
  arch,                 \* NewElf's local arch
  elf,                  \* the Elf object under construction
  programHeaderTableOffset,
  programHeaderTableEntrySize,
  numEntries,
  i,                    \* the loop index of locateExecutableSegments
  entryOffset,
  segmentOffset,
  virtualAddress,
  segments,             \* the list locateExecutableSegments is appending to
  located,              \* what locateExecutableSegments returned
  segIdx,               \* InstructionStream's position in the segment list
  instructionStream,
  ret,                  \* what NewElf returned: [image, err]
  termOut,              \* the lines printed through term.Println
  call,                 \* the last fieldValue call and its result
  trieWrites,           \* the assignments to elf.reverseInstructionTrie so far
  found                 \* the result of the last find command

locateVars ==
  <<programHeaderTableOffset, programHeaderTableEntrySize, numEntries, i,
    entryOffset, segmentOffset, virtualAddress, segments, located>>

streamVars == <<segIdx, instructionStream>>

inputVars == <<input, elfContents, thumb>>

vars ==
  <<inputVars, pc, arch, elf, locateVars, streamVars, ret, termOut, call,
    trieWrites, found>>

NoBuffer == [bytes |-> <<>>, len |-> 0]

NoElf ==
  [arch |-> 0, endianness |-> "", isa |-> NilISA, contents |-> NoBuffer,
   programHeaderTableOffset |-> 0, reverseInstructionTrie |-> NilTrie]

NoCall == [field |-> "", table |-> "", base |-> Zero, result |-> Ok(Zero)]

NoReturn == [image |-> "nil", err |-> ""]

NoLocated == [returned |-> FALSE, segments |-> <<>>, err |-> ""]

NoFound == [addr |-> Zero, err |-> "", target |-> <<>>]

Init ==
  /\ input \in Inputs
  /\ elfContents = [bytes |-> Backing(input), len |-> input.len]
  /\ thumb = input.thumb
  /\ pc = "elfArch"
  /\ arch = 0
  /\ elf = NoElf
  /\ programHeaderTableOffset = Zero
  /\ programHeaderTableEntrySize = Zero
  /\ numEntries = 0
  /\ i = 0
  /\ entryOffset = Zero
  /\ segmentOffset = Zero
  /\ virtualAddress = Zero
  /\ segments = <<>>
  /\ located = NoLocated
  /\ segIdx = 1
  /\ instructionStream = <<>>
  /\ ret = NoReturn
  /\ termOut = <<>>
  /\ call = NoCall
  /\ trieWrites = 0
  /\ found = NoFound

(***************************************************************************)
(* NewElf.                                                                 *)
(***************************************************************************)
\* An error return that hands out the object built so far.
ErrReturnPartial(e, err) == [image |-> "elf", err |-> err]

\* return nil, err
ErrReturn(e, err) == [image |-> "nil", err |-> err]

\* return elf, nil
OkReturn(e) == [image |-> "elf", err |-> ""]

\* The record of a fieldValue call.
Called(field, table, base, r) ==
  [field |-> field, table |-> table, base |-> base, result |-> r]

\* arch, err := elfArch(elfContents)
NewElfArch ==
  /\ pc = "elfArch"
  /\ LET r == elfArch(elfContents) IN
       /\ arch' = IF r.kind = "ok" THEN Small(r.val) ELSE arch
       /\ ret' = IF r.kind = "err" THEN ErrReturn(elf, r.err) ELSE ret
       /\ pc' = CASE r.kind = "ok" -> "elfEndianness"
                  [] r.kind = "err" -> "done"
                  [] r.kind = "panic" -> "panic"
  /\ UNCHANGED <<inputVars, elf, locateVars, streamVars, termOut, call,
                 trieWrites, found>>

\* endianness, err := elfEndianness(elfContents); elf := &Elf{...}
NewElfEndianness ==
  /\ pc = "elfEndianness"
  /\ LET r == elfEndianness(elfContents) IN
       /\ elf' = IF r.kind = "ok"
                   THEN [arch |-> arch, endianness |-> r.val, isa |-> NilISA,
                         contents |-> elfContents,
                         programHeaderTableOffset |-> 0,
                         reverseInstructionTrie |-> NilTrie]
                   ELSE elf
       /\ ret' = IF r.kind = "err" THEN ErrReturn(elf, r.err) ELSE ret
       /\ pc' = CASE r.kind = "ok" -> "setISA"
                  [] r.kind = "err" -> "done"
                  [] r.kind = "panic" -> "panic"
  /\ UNCHANGED <<inputVars, arch, locateVars, streamVars, termOut, call,
                 trieWrites, found>>

\* err = elf.setISA(thumb)
NewElfSetISA ==
  /\ pc = "setISA"
  /\ LET r == setISA(elf, thumb) IN
       /\ call' = Called("isa", "elfHeader", Zero, r.read)
       /\ elf' = [elf EXCEPT !.isa = r.isa]
       /\ termOut' = termOut \o r.out
       /\ ret' = IF r.read.kind # "panic" /\ r.err # ""
                   THEN ErrReturn(elf', r.err) ELSE ret
       /\ pc' = IF r.read.kind = "panic" THEN "panic"
                ELSE IF r.err # "" THEN "done" ELSE "phoff"
  /\ UNCHANGED <<inputVars, arch, locateVars, streamVars, trieWrites, found>>

(***************************************************************************)
(* locateExecutableSegments, one fieldValue read at a time.                *)
(***************************************************************************)
\* return nil, err
LocateFail(segs, err) == [returned |-> TRUE, segments |-> <<>>, err |-> err]

\* return segments, nil
LocateOk(segs) == [returned |-> TRUE, segments |-> segs, err |-> ""]

\* The test with the mask of the write bit, 0x2.
IsExecutableMask2(flags) == (flags[1] \div 2) % 2 = 1

\* flags&executableFlagMask > 0, with executableFlagMask = 0x1
IsExecutable(flags) == flags[1] % 2 = 1

\* programHeaderTableOffset + (i * programHeaderTableEntrySize)
EntryOffset(tableOffset, index, entrySize) ==
  AddU(tableOffset, MulU(U(index), entrySize))

segment(va, off, sz) == [VAddr |-> va, Offset |-> off, Size |-> sz]

\* What a read's result does to NewElf: on an error both functions return.
AfterRead(r, next) ==
  /\ pc' = CASE r.kind = "ok" -> next
             [] r.kind = "err" -> "done"
             [] r.kind = "panic" -> "panic"
  /\ ret' = IF r.kind = "err" THEN ErrReturn(elf, r.err) ELSE ret
  /\ located' = IF r.kind = "err" THEN LocateFail(segments, r.err) ELSE located

LocateTableOffset ==
  /\ pc = "phoff"
  /\ LET r == fieldValue(elf, "program header table offset", elfHeader, Zero) IN
       /\ call' = Called("program header table offset", "elfHeader", Zero, r)
       /\ programHeaderTableOffset' =
            IF r.kind = "ok" THEN r.val ELSE programHeaderTableOffset
       /\ AfterRead(r, "phentsize")
  /\ UNCHANGED <<inputVars, arch, elf, programHeaderTableEntrySize, numEntries,
                 i, entryOffset, segmentOffset, virtualAddress, segments,
                 streamVars, termOut, trieWrites, found>>

LocateEntrySize ==
  /\ pc = "phentsize"
  /\ LET r == fieldValue(elf, "program header table entry size", elfHeader, Zero) IN
       /\ call' = Called("program header table entry size", "elfHeader", Zero, r)
       /\ programHeaderTableEntrySize' =
            IF r.kind = "ok" THEN r.val ELSE programHeaderTableEntrySize
       /\ AfterRead(r, "phnum")
  /\ UNCHANGED <<inputVars, arch, elf, programHeaderTableOffset, numEntries,
                 i, entryOffset, segmentOffset, virtualAddress, segments,
                 streamVars, termOut, trieWrites, found>>

LocateNumEntries ==
  /\ pc = "phnum"
  /\ LET r == fieldValue(elf, "program header table num entries", elfHeader, Zero)
         empty == r.kind = "ok" /\ Small(r.val) = 0
         msg == "invalid ELF file: empty program header table"
     IN
       /\ call' = Called("program header table num entries", "elfHeader", Zero, r)
       /\ numEntries' = IF r.kind = "ok" THEN Small(r.val) ELSE numEntries
       /\ IF empty
            THEN /\ pc' = "done"
                 /\ ret' = ErrReturn(elf, msg)
                 /\ located' = LocateFail(segments, msg)
            ELSE AfterRead(r, "flags")
  /\ UNCHANGED <<inputVars, arch, elf, programHeaderTableOffset,
                 programHeaderTableEntrySize, i, entryOffset, segmentOffset,
                 virtualAddress, segments, streamVars, termOut, trieWrites,
                 found>>

\* The head of an iteration: the entry's offset and its flags.
LocateFlags ==
  /\ pc = "flags"
  /\ i < numEntries
  /\ LET eo == EntryOffset(programHeaderTableOffset, i,
                           programHeaderTableEntrySize)
         r == fieldValue(elf, "flags", programHeaderEntry, eo)
         exec == r.kind = "ok" /\ IsExecutable(r.val)
     IN
       /\ entryOffset' = eo
       /\ call' = Called("flags", "programHeaderEntry", eo, r)
       /\ i' = IF r.kind = "ok" /\ ~exec THEN i + 1 ELSE i
       /\ AfterRead(r, IF exec THEN "segoff" ELSE "flags")
  /\ UNCHANGED <<inputVars, arch, elf, programHeaderTableOffset,
                 programHeaderTableEntrySize, numEntries, segmentOffset,
                 virtualAddress, segments, streamVars, termOut, trieWrites,
                 found>>

LocateSegmentOffset ==
  /\ pc = "segoff"
  /\ LET r == fieldValue(elf, "segment offset", programHeaderEntry, entryOffset) IN
       /\ call' = Called("segment offset", "programHeaderEntry", entryOffset, r)
       /\ segmentOffset' = IF r.kind = "ok" THEN r.val ELSE segmentOffset
       /\ AfterRead(r, "vaddr")
  /\ UNCHANGED <<inputVars, arch, elf, programHeaderTableOffset,
                 programHeaderTableEntrySize, numEntries, i, entryOffset,
                 virtualAddress, segments, streamVars, termOut, trieWrites,
                 found>>

LocateVirtualAddress ==
  /\ pc = "vaddr"
  /\ LET r == fieldValue(elf, "virtual address", programHeaderEntry, entryOffset) IN
       /\ call' = Called("virtual address", "programHeaderEntry", entryOffset, r)
       /\ virtualAddress' = IF r.kind = "ok" THEN r.val ELSE virtualAddress
       /\ AfterRead(r, "filesz")
  /\ UNCHANGED <<inputVars, arch, elf, programHeaderTableOffset,
                 programHeaderTableEntrySize, numEntries, i, entryOffset,
                 segmentOffset, segments, streamVars, termOut, trieWrites,
                 found>>

\* The last read of an executable entry, and the append.
LocateFileSize ==
  /\ pc = "filesz"
  /\ LET r == fieldValue(elf, "file size", programHeaderEntry, entryOffset) IN
       /\ call' = Called("file size", "programHeaderEntry", entryOffset, r)
       /\ segments' =
            IF r.kind = "ok"
              THEN Append(segments, segment(virtualAddress, segmentOffset, r.val))
              ELSE segments
       /\ i' = IF r.kind = "ok" THEN i + 1 ELSE i
       /\ AfterRead(r, "flags")
  /\ UNCHANGED <<inputVars, arch, elf, programHeaderTableOffset,
                 programHeaderTableEntrySize, numEntries, entryOffset,
                 segmentOffset, virtualAddress, streamVars, termOut,
                 trieWrites, found>>

\* The loop is over: return segments, nil.
LocateReturn ==
  /\ pc = "flags"
  /\ ~(i < numEntries)
  /\ located' = LocateOk(segments)
  /\ pc' = "stream"
  /\ UNCHANGED <<inputVars, arch, elf, programHeaderTableOffset,
                 programHeaderTableEntrySize, numEntries, i, entryOffset,
                 segmentOffset, virtualAddress, segments, streamVars, ret,
                 termOut, call, trieWrites, found>>

(***************************************************************************)
(* InstructionStream, one segment at a time, and the rest of NewElf.       *)
(***************************************************************************)
StreamSegment ==
  /\ pc = "stream"
  /\ segIdx <= Len(located.segments)
  /\ LET r == SegmentStream(elf.contents, located.segments[segIdx],
                            InstructionSize(elf.isa))
     IN IF r.panic
          THEN /\ pc' = "panic"
               /\ UNCHANGED streamVars
          ELSE /\ pc' = "stream"
               /\ instructionStream' = instructionStream \o r.instrs
               /\ segIdx' = segIdx + 1
  /\ UNCHANGED <<inputVars, arch, elf, locateVars, ret, termOut, call,
                 trieWrites, found>>

\* InstructionStream returns; NewElf rejects an empty stream.
StreamReturn ==
  /\ pc = "stream"
  /\ segIdx > Len(located.segments)
  /\ IF Len(instructionStream) = 0
       THEN /\ pc' = "done"
            /\ ret' = ErrReturn(elf, "no executable segments found")
       ELSE /\ pc' = "trie"
            /\ ret' = ret
  /\ UNCHANGED <<inputVars, arch, elf, locateVars, streamVars, termOut, call,
                 trieWrites, found>>

\* elf.reverseInstructionTrie = trie.Trie(instructionStream, elf.isa);
\* return elf, nil
BuildTrie ==
  /\ pc = "trie"
  /\ elf' = [elf EXCEPT
               !.reverseInstructionTrie = Trie(instructionStream, elf.isa)]
  /\ trieWrites' = trieWrites + 1
  /\ ret' = OkReturn(elf')
  /\ pc' = "done"
  /\ UNCHANGED <<inputVars, arch, locateVars, streamVars, termOut, call, found>>

(***************************************************************************)
(* The find command on the loaded file.                                    *)
(***************************************************************************)
\* The hex text of a sequence of bytes, as a user types a gadget.
RECURSIVE HexText(_)
HexText(bytes) ==
  IF bytes = <<>> THEN <<>>
  ELSE <<HexDigit[(Head(bytes) \div 16) + 1], HexDigit[(Head(bytes) % 16) + 1]>>
       \o HexText(Tail(bytes))

\* The gadgets asked for: every run of bytes of the image's body, and one
\* byte that occurs nowhere in it.
Targets ==
  { HexText(SubSeq(input.body, a, b)) :
      a \in 1..Len(input.body), b \in 1..Len(input.body) } \cup {HexText(<<255>>)}

\* Find.Execute with globalState.CurrentFile the image NewElf returned.
Execute(currFile, e, target) ==
  IF currFile = "nil"
    THEN [addr |-> Zero, err |-> "no target file specified", target |-> target]
    ELSE [target |-> target] @@ TrieFind(e.reverseInstructionTrie, target, e.isa)

Find ==
  /\ pc = "done"
  /\ \E target \in Targets : found' = Execute(ret.image, elf, target)
  /\ UNCHANGED <<inputVars, pc, arch, elf, locateVars, streamVars, ret,
                 termOut, call, trieWrites>>

Next ==
  \/ NewElfArch
  \/ NewElfEndianness
  \/ NewElfSetISA
  \/ LocateTableOffset
  \/ LocateEntrySize
  \/ LocateNumEntries
  \/ LocateFlags
  \/ LocateSegmentOffset
  \/ LocateVirtualAddress
  \/ LocateFileSize
  \/ LocateReturn
  \/ StreamSegment
  \/ StreamReturn
  \/ BuildTrie
  \/ Find

Spec == Init /\ [][Next]_vars

(***************************************************************************)
(* Vocabulary of the properties.                                           *)
(***************************************************************************)
\* The error kinds of the specification, by the message of the error value.
ErrKind(msg) ==
  CASE msg = "invalid ELF file: file size less than offset to arch field"
         -> "InvalidFormat"
    [] msg = "invalid ELF file: arch field not 32 or 64" -> "InvalidFormat"
    [] msg = "invalid ELF file: file size less than offset to endianness field"
         -> "InvalidFormat"
    [] msg = "invalid ELF file: endianness field not \"little\" or \"big\""
         -> "InvalidFormat"
    [] msg = "invalid ELF file: value offset outside file bounds" -> "OutOfBounds"
    [] msg = "invalid ELF file: empty program header table"
         -> "EmptyProgramHeaderTable"
    [] msg = "no executable segments found" -> "NoExecutableSegments"
    [] msg = "unsupported operation" -> "UnsupportedISA"
    [] OTHER -> "none"

\* NewElf returned an error of the given kind, and no image.
Failed(kind) ==
  pc = "done" /\ ret.image = "nil" /\ ErrKind(ret.err) = kind

\* Whether the buffer has a byte at file offset k, and that byte.
HasByte(k) == k < input.len

ByteOf(k) == elfContents.bytes[k + 1]

\* The header bytes name a word size, a byte order and a supported ISA.
ValidHeader ==
  /\ input.archByte \in {1, 2}
  /\ input.endByte \in {1, 2}
  /\ input.isaByte \in DOMAIN supportedISAs

\* The buffer holds every header field the loader reads.
HeaderInBuffer ==
  input.len >= FieldPos(elfHeader, "program header table num entries",
                        LayoutArch(input)) + 2

\* The program header table offset the header declares.
DeclaredTableOffset ==
  Stored(input.phoff,
         FieldWidth(elfHeader, "program header table offset", LayoutArch(input)))

\* A uint exceeds a small number.
Exceeds(x, n) == ~IsSmall(x) \/ Small(x) > n

(***************************************************************************)
(* C4.  elfArch returns 32 when the byte at offset 4 is 1 and 64 when it   *)
(* is 2, and fails with InvalidFormat in every other case, whatever the    *)
(* length of the buffer; elfEndianness likewise returns little or big for  *)
(* the byte at offset 5 being 1 or 2 and fails with InvalidFormat          *)
(* otherwise.  Neither has any other outcome.                              *)
(***************************************************************************)
\* C4: elfArch and elfEndianness return a value or InvalidFormat, nothing else.
C4_DetectionIsTotal ==
  /\ pc # "elfArch" =>
       IF HasByte(4) /\ ByteOf(4) = 1 THEN arch = 32
       ELSE IF HasByte(4) /\ ByteOf(4) = 2 THEN arch = 64
       ELSE arch = 0 /\ Failed("InvalidFormat")
  /\ (pc \notin {"elfArch", "elfEndianness"} /\ arch # 0) =>
       IF HasByte(5) /\ ByteOf(5) = 1 THEN elf.endianness = "little"
       ELSE IF HasByte(5) /\ ByteOf(5) = 2 THEN elf.endianness = "big"
       ELSE elf = NoElf /\ Failed("InvalidFormat")

(***************************************************************************)
(* C3.  fieldValue returns the OutOfBounds error whenever table offset +   *)
(* baseOffset + width exceeds the buffer length, also when that sum does   *)
(* not fit the machine word, and otherwise the unsigned integer held by    *)
(* the width bytes at that position in the image's byte order; it never    *)
(* faults.  The value is compared with what the image stored in the field  *)
(* wherever the read falls on a field of the image.                        *)
(***************************************************************************)
\* The field of the image a read of width bytes at position pos falls on.
FieldsAt(pos, width) ==
  { n \in 1..Len(ImageFields(input)) :
      ImageFields(input)[n].pos = pos /\ ImageFields(input)[n].width = width }

\* C3: every fieldValue call returns OutOfBounds or the stored value, as
\* its position lies outside or inside the buffer; it never faults.
C3_FieldValueBoundsChecked ==
  call.field # "" =>
    LET a == elf.arch
        off == FieldPos(Table(call.table), call.field, a)
        width == FieldWidth(Table(call.table), call.field, a)
        past == \/ Exceeds(call.base, 16777216)
                \/ Small(call.base) + off + width > input.len
    IN /\ call.result.kind # "panic"
       /\ past => (call.result.kind = "err"
                    /\ ErrKind(call.result.err) = "OutOfBounds")
       /\ ~past =>
            /\ call.result.kind = "ok"
            /\ Small(call.base) + off + width <= FullLen(input) =>
                 \A n \in FieldsAt(Small(call.base) + off, width) :
                   call.result.val = Stored(ImageFields(input)[n].val, width)

(***************************************************************************)
(* C2.  A buffer with a valid header that ends before the program header   *)
(* table offset it declares (and declares at least one entry) makes NewElf *)
(* return an OutOfBounds error and no image: no panic, no image.           *)
(***************************************************************************)
TruncatedBeforeTable ==
  /\ ValidHeader
  /\ HeaderInBuffer
  /\ input.phnum > 0
  /\ Exceeds(DeclaredTableOffset, input.len)

\* C2: on a buffer truncated before its program header table NewElf
\* returns OutOfBounds and no image.
C2_TruncatedTableIsOutOfBounds ==
  TruncatedBeforeTable =>
    /\ pc # "panic"
    /\ ret.image = "nil"
    /\ pc = "done" => ErrKind(ret.err) = "OutOfBounds"

(***************************************************************************)
(* C5.  The ISA setISA selects is a function of the identifier read and    *)
(* the mode hint alone: 0x28 with the hint gives Thumb, 0x28 without it    *)
(* ARM, 0x03 and 0x3e X86 and 0xb7 AArch64 with or without the hint, and   *)
(* loading goes on; any other identifier fails with UnsupportedISA and     *)
(* leaves the ISA unset.  The advisories printed do not enter into it.     *)
(***************************************************************************)
\* setISA has run and could read the identifier.
IsaSelected == call.field # "" /\ HasByte(18)

\* C5: the ISA selected depends on the identifier and the hint only.
C5_IsaIsFunctionOfIdAndHint ==
  IsaSelected =>
    LET id == input.isaByte IN
    /\ (id = 40 /\ input.thumb) => elf.isa = "Thumb"
    /\ (id = 40 /\ ~input.thumb) => elf.isa = "ARM"
    /\ id \in {3, 62} => elf.isa = "X86"
    /\ id = 183 => elf.isa = "AArch64"
    /\ id \in {3, 62, 40, 183} =>
         ~(call.field = "isa" /\ pc \in {"done", "panic"})
    /\ id \notin {3, 62, 40, 183} =>
         elf.isa = NilISA /\ Failed("UnsupportedISA")

C5_Witness ==
  /\ IsaSelected
  /\ input.isaByte = 40 /\ input.thumb
  /\ elf.isa = "Thumb"
  /\ pc = "phoff"

(***************************************************************************)
(* C6.  NewElf is all-or-nothing.  A failing load step (an error from      *)
(* elfArch, elfEndianness, setISA or locateExecutableSegments, or an empty *)
(* instruction stream) makes it return that error and no image.  An image  *)
(* it returns has arch 32 or 64, endianness big or little, an ISA, and a   *)
(* trie that was assigned once, with the ISA and byte order already set.   *)
(***************************************************************************)
\* C6: NewElf returns an error and no image, or a fully built image.
C6_AllOrNothing ==
  /\ ret.image = "elf" =>
       /\ pc = "done" /\ ret.err = ""
       /\ elf.arch \in {32, 64}
       /\ elf.endianness \in {"big", "little"}
       /\ elf.isa # NilISA
       /\ ~elf.reverseInstructionTrie.nil
       /\ trieWrites = 1
  /\ trieWrites <= 1
  /\ trieWrites = 1 =>
       /\ ret.image = "elf"
       /\ elf.reverseInstructionTrie = Trie(instructionStream, elf.isa)
  /\ trieWrites = 0 => elf.reverseInstructionTrie.nil
  /\ (pc = "done" /\ ret.err # "") => ret.image = "nil"
  /\ pc = "done" => (ret.err # "" \/ ret.image = "elf")
  /\ call.result.kind = "err" =>
       (pc = "done" /\ ret.image = "nil" /\ ret.err = call.result.err)
  /\ located.err # "" =>
       (pc = "done" /\ ret.image = "nil" /\ ret.err = located.err)
  /\ (pc = "done" /\ located.returned /\ located.err = ""
        /\ instructionStream = <<>>) =>
       Failed("NoExecutableSegments")

\* A failure after the object was partly built: the ISA is set, no image
\* is returned.
C6_Witness ==
  /\ pc = "done"
  /\ elf.isa # NilISA
  /\ ret.image = "nil"
  /\ ErrKind(ret.err) = "NoExecutableSegments"

(***************************************************************************)
(* C7.  When locateExecutableSegments succeeds it returns one segment for  *)
(* each entry i in 0..count-1 whose flags, read at table offset + i *      *)
(* entry size, have bit 0 set, in increasing i, carrying that entry's      *)
(* file offset, virtual address and file size; other entries contribute    *)
(* nothing.  A count of 0 fails with EmptyProgramHeaderTable, and a        *)
(* failing read makes it return that error and no segments.                *)
(***************************************************************************)
\* The value of a field of the entry at base, as the file buf made from p
\* holds it; zero where the field does not lie in the buffer.
EntryField(p, buf, field, base) ==
  LET a == LayoutArch(p)
      pos == AddU(base, U(FieldPos(programHeaderEntry, field, a)))
      width == FieldWidth(programHeaderEntry, field, a)
  IN IF IsSmall(pos) /\ Small(pos) + width <= buf.len
       THEN Decode(buf, Small(pos), width,
                   IF p.endByte = 2 THEN "big" ELSE "little")
       ELSE Zero

\* Where the n-th entry (n from 0) lies by the header's declaration.
DeclaredBase(p, n) ==
  AddU(Stored(p.phoff, FieldWidth(elfHeader, "program header table offset",
                                  LayoutArch(p))),
       MulU(U(n), U(p.phentsize)))

DeclaredSegment(p, buf, n) ==
  segment(EntryField(p, buf, "virtual address", DeclaredBase(p, n)),
          EntryField(p, buf, "segment offset", DeclaredBase(p, n)),
          EntryField(p, buf, "file size", DeclaredBase(p, n)))

\* The segments of the entries whose flags have bit 0 set, in table order,
\* read from the file at the offsets the header declares.
DeclaredSegments ==
  LET Bit0(n) ==
        EntryField(input, elfContents, "flags", DeclaredBase(input, n))[1] % 2 = 1
      chosen == SelectSeq([n \in 1..input.phnum |-> n - 1], Bit0)
  IN [k \in 1..Len(chosen) |-> DeclaredSegment(input, elfContents, chosen[k])]

\* The header describes the table the image holds, and the buffer holds it.
WellFormedTable ==
  /\ input.phoff = U(TablePos(LayoutArch(input)))
  /\ input.phentsize = EntryLen(LayoutArch(input))
  /\ input.phnum <= Len(input.entries)
  /\ input.len >= BodyPos(LayoutArch(input), Len(input.entries))

\* The segment the image's entry e describes.
WrittenSegment(p, e) ==
  segment(Stored(e.vaddr,
                 FieldWidth(programHeaderEntry, "virtual address", LayoutArch(p))),
          Stored(e.offset,
                 FieldWidth(programHeaderEntry, "segment offset", LayoutArch(p))),
          Stored(e.filesz,
                 FieldWidth(programHeaderEntry, "file size", LayoutArch(p))))

\* The segments of the executable entries the image was made of.
WrittenSegments ==
  LET Bit0(e) == e.flags % 2 = 1
      chosen == SelectSeq(SubSeq(input.entries, 1, input.phnum), Bit0)
  IN [k \in 1..Len(chosen) |-> WrittenSegment(input, chosen[k])]

LocateStarted ==
  pc \notin {"elfArch", "elfEndianness", "setISA", "phoff", "phentsize", "phnum"}

\* C7: a successful locateExecutableSegments returns the segments of exactly
\* the entries whose flags have bit 0 set, in table order; a count of 0 and
\* a failing read return the error and no segment.
C7_LocateReturnsExecutableEntries ==
  /\ (located.returned /\ located.err = "") =>
       /\ located.segments = DeclaredSegments
       /\ WellFormedTable => located.segments = WrittenSegments
       /\ numEntries = input.phnum /\ numEntries > 0
  /\ (ValidHeader /\ HeaderInBuffer /\ input.phnum = 0 /\ LocateStarted) =>
       /\ located.returned /\ located.segments = <<>>
       /\ ErrKind(located.err) = "EmptyProgramHeaderTable"
       /\ Failed("EmptyProgramHeaderTable")
  /\ (located.returned /\ located.err # "") =>
       /\ located.segments = <<>>
       /\ ErrKind(located.err) \in {"OutOfBounds", "EmptyProgramHeaderTable"}
       /\ ErrKind(located.err) = "OutOfBounds" => call.result.err = located.err
  /\ (call.result.kind = "err" /\ call.field # "isa") =>
       (located.returned /\ located.err = call.result.err)

\* Of two entries one is executable: the other is left out.
C7_Witness ==
  /\ located.returned /\ located.err = ""
  /\ numEntries = 2
  /\ Len(located.segments) = 1

(***************************************************************************)
(* C8.  Every segment locateExecutableSegments hands to InstructionStream  *)
(* satisfies file offset + size in file <= buffer length, so the slice     *)
(* contents[Offset : Offset+Size] lies in the buffer and the construction  *)
(* never faults on a segment reaching past the end of the file.            *)
(***************************************************************************)
\* Offset + Size does not wrap and is at most n.
EndsWithin(seg, n) ==
  /\ ~Exceeds(seg.Offset, n)
  /\ ~Exceeds(seg.Size, n)
  /\ Small(seg.Offset) + Small(seg.Size) <= n

\* C8: every located segment ends within the buffer and NewElf never faults.
C8_SegmentsLieInBuffer ==
  (located.returned /\ located.err = "") =>
    /\ \A j \in 1..Len(located.segments) :
         EndsWithin(located.segments[j], input.len)
    /\ pc # "panic"

(***************************************************************************)
(* C9.  For a segment of size s and instruction width w, InstructionStream *)
(* emits floor(s / w) instructions, each of w bytes inside the segment; a  *)
(* trailing s mod w bytes are dropped, and nothing faults.  Stated for     *)
(* segments that lie in the buffer.                                        *)
(***************************************************************************)
RECURSIVE WholeInstructions(_, _, _)
WholeInstructions(segs, w, j) ==
  IF j > Len(segs) THEN 0
  ELSE (Small(segs[j].Size) \div w) + WholeInstructions(segs, w, j + 1)

AllSegmentsInBuffer ==
  /\ located.returned /\ located.err = ""
  /\ \A j \in 1..Len(located.segments) :
       EndsWithin(located.segments[j], input.len)

\* C9: a segment of size s yields floor(s / w) instructions of w bytes
\* inside the segment, and no fault.
C9_RemainderIsDropped ==
  AllSegmentsInBuffer =>
    /\ pc # "panic"
    /\ segIdx > Len(located.segments) =>
         Len(instructionStream) =
           WholeInstructions(located.segments, InstructionSize(elf.isa), 1)

(***************************************************************************)
(* C10.  The instruction stream is the concatenation, in segment order, of *)
(* each segment's instructions in increasing offset order; the j-th        *)
(* instruction of a segment (j from 0) has as opcode the hex text of the   *)
(* bytes [Offset + j*w, Offset + (j+1)*w) of the buffer's array in file    *)
(* order, whatever the image's byte order, and as address the segment's    *)
(* virtual address + j*w (in uint arithmetic).                             *)
(***************************************************************************)
\* The bytes of the buffer's array from position low (from 0), n of them.
BytesAt(low, n) == SubSeq(elfContents.bytes, low + 1, low + n)

\* stream, from its position at on, is counts[j] instructions of segment
\* j, then counts[j+1] of segment j+1, and so on, each as C10 describes.
RECURSIVE IsStreamOf(_, _, _, _, _, _)
IsStreamOf(stream, segs, counts, w, j, at) ==
  IF j > Len(segs) THEN at = Len(stream) + 1
  ELSE /\ at + counts[j] <= Len(stream) + 1
       /\ \A c \in 0..(counts[j] - 1) :
            /\ Small(segs[j].Offset) + (c + 1) * w <= Len(elfContents.bytes)
            /\ stream[at + c].Op =
                 HexText(BytesAt(Small(segs[j].Offset) + c * w, w))
            /\ stream[at + c].Vaddr = AddU(segs[j].VAddr, U(c * w))
       /\ IsStreamOf(stream, segs, counts, w, j + 1, at + counts[j])

StreamBuilt ==
  /\ located.returned /\ located.err = ""
  /\ segIdx > Len(located.segments)

\* C10: the stream is the segments' instructions in order, the j-th of a
\* segment being the hex text of its w bytes at Offset + j*w, at VAddr + j*w.
C10_StreamIsConcatenation ==
  StreamBuilt =>
    \E counts \in [1..Len(located.segments) -> 0..(MaxBody + 2)] :
      IsStreamOf(instructionStream, located.segments, counts,
                 InstructionSize(elf.isa), 1, 1)

\* Two segments, several instructions, on a big-endian image.
C10_Witness ==
  /\ StreamBuilt
  /\ Len(located.segments) = 2
  /\ Len(instructionStream) = 4
  /\ elf.endianness = "big"
  /\ instructionStream[3].Vaddr = U(8192)

(***************************************************************************)
(* C1.  On an image built from a buffer with a valid header and exactly    *)
(* one executable segment, of content C at virtual address V, finding the  *)
(* hex text of C[k : k+w], for k a multiple of the instruction width w     *)
(* with k + w <= len(C), succeeds and returns V + k0 (in uint arithmetic), *)
(* where k0 is the least multiple of w at which C holds the same w bytes:  *)
(* V + k itself when those bytes occur at no earlier instruction.          *)
(***************************************************************************)
ExecutableEntries == { n \in 1..Len(input.entries) : input.entries[n].flags % 2 = 1 }

\* The image is well formed and holds exactly one executable segment,
\* which lies in the buffer.
OneExecutableSegment ==
  /\ ValidHeader
  /\ WellFormedTable
  /\ input.phnum = Len(input.entries)
  /\ Cardinality(ExecutableEntries) = 1
  /\ Len(WrittenSegments) = 1
  /\ EndsWithin(WrittenSegments[1], input.len)

\* Its content and its virtual address.
SegmentContent ==
  BytesAt(Small(WrittenSegments[1].Offset), Small(WrittenSegments[1].Size))

SegmentVAddr == WrittenSegments[1].VAddr

\* The offsets of the whole instructions of the content.
AlignedOffsets(w) ==
  { k \in 0..Len(SegmentContent) : k % w = 0 /\ k + w <= Len(SegmentContent) }

ChunkText(k, w) == HexText(SubSeq(SegmentContent, k + 1, k + w))

\* The first instruction of the content with the text of the one at k.
FirstOffsetOf(k, w) ==
  CHOOSE k0 \in AlignedOffsets(w) :
    /\ ChunkText(k0, w) = ChunkText(k, w)
    /\ \A k1 \in AlignedOffsets(w) :
         ChunkText(k1, w) = ChunkText(k, w) => k0 <= k1

\* A find command ran on an image NewElf built from such a buffer.
FoundOnBuiltImage ==
  /\ pc = "done" /\ ret.image = "elf"
  /\ OneExecutableSegment
  /\ found.target # <<>>

\* C1, as stated: find(hex(C[k:k+w])) returns V + k for every aligned k.
C1_FindReturnsOwnAddress ==
  FoundOnBuiltImage =>
    LET w == InstructionSize(elf.isa) IN
    \A k \in AlignedOffsets(w) :
      ChunkText(k, w) = found.target =>
        (found.err = "" /\ found.addr = AddU(SegmentVAddr, U(k)))

\* C1, amended: find(hex(C[k:k+w])) returns V + k0, k0 the first aligned
\* offset of C holding those bytes.
C1_FindReturnsFirstAddress ==
  FoundOnBuiltImage =>
    LET w == InstructionSize(elf.isa) IN
    \A k \in AlignedOffsets(w) :
      ChunkText(k, w) = found.target =>
        (found.err = ""
           /\ found.addr = AddU(SegmentVAddr, U(FirstOffsetOf(k, w))))

\* An instruction that is not the segment's first is found at V + k, on an
\* image whose instructions are two bytes wide.
C1_Witness ==
  /\ FoundOnBuiltImage
  /\ InstructionSize(elf.isa) = 2
  /\ \E k \in AlignedOffsets(2) :
       /\ k > 0
       /\ ChunkText(k, 2) = found.target
       /\ found.err = ""
       /\ found.addr = AddU(SegmentVAddr, U(k))

====
